---- MODULE Spec2Model ----
(***************************************************************************)
(* Gossip-encryption-key rotation sidecars of consul-k8s.                  *)
(*                                                                         *)
(* Two variants of the sidecar exist in the repository:                    *)
(*   rotation-sidecar  (control-plane/subcommand/rotation-sidecar)         *)
(*   rotatoe           (control-plane/subcommand/rotatoe)                  *)
(* One sidecar instance runs beside every Consul server.                 *)
(* The deployed variant is fixed at start-up (variable `variant`).         *)
(*                                                                         *)
(* The Consul cluster is the environment.  Its keyring is kept per node:   *)
(* every node holds a set of keys, one of which is its primary key.  A     *)
(* keyring RPC is a broadcast; it returns success only if every node was   *)
(* reached and every node succeeded.  A node refuses to remove its primary *)
(* key and refuses to use a key it does not hold.                          *)
(*                                                                         *)
(* Two more parts of the repository are modelled beside the sidecars:      *)
(*   CleanupResource.Reconcile  (connect-inject/cleanup_resource.go)       *)
(*   validLabel                 (cli/cmd/install)                          *)
(* Each has its own variables and its own specification.                   *)
(***************************************************************************)
EXTENDS Integers, FiniteSets, Sequences, TLC

\* ------------------------------------------------------------- bounds
\* Number of members of the gossip pool (server and client agents); every
\* member has a keyring.
NumNodes == 2
\* Number of KeyringList polls of one installKey call (the source polls 100
\* times; the loop has the same shape for every positive limit).
MaxPolls == 2
\* Number of times the secret file is written or replaced.
MaxWrites == 2
\* Number of times the cluster changes its leader.
MaxElections == 1

Nodes == 1..NumNodes
\* The members that are Consul servers; a sidecar instance runs in the pod
\* of each server, and one of the servers is the leader.
Servers == {1, 2}
NoLeader == 0

\* Gossip keys that the secret file may carry.
FileKeys == {"A", "B"}
\* A key that an earlier rotation may have left in the keyring.
StaleKeys == {"C"}
\* The keys a keyring may hold.
Keys == FileKeys \cup StaleKeys
\* Possible content of the watched file: a key, or nothing (a file caught
\* in the middle of a write).
Contents == FileKeys \cup {""}
NoKey == "none"

Variants == {"sidecar", "rotatoe"}
Ops == {"Write", "Remove"}
NoEvent == "none"

VARIABLES
    variant,          \* which sidecar is deployed
    running,          \* the servers whose sidecar instance is running
    file,             \* content of the gossip encryption file
    leader,           \* node that is the cluster leader, or NoLeader
    holds,            \* holds[n]: keys installed on node n
    primary,          \* primary[n]: primary key of node n
    pc,               \* pc[p]: position of instance p
    events,           \* events[p]: pending fsnotify events of p's watcher
    watching,         \* watching[p]: p's watcher still has the path
    currentChecksum,  \* currentChecksum / currentCRC of Run
    event,            \* local `event` of Run: the Op of the event being handled
    leaderAddr,       \* local `leader` of Run: result of the last Leader()
    newKey,           \* argument of installKey
    checksum,         \* local `checksum` of Run
    i,                \* loop counter of installKey
    keyringList,      \* keyringList[0].Keys of the last successful poll
    todo,             \* keys of the removal loop not yet visited
    err,              \* installKey's result: TRUE when it returns an error
    sawFull,          \* a listing of this attempt showed newKey on every node
    useOk,            \* KeyringUse(newKey) succeeded in this attempt
    writes,           \* number of writes and replacements of the file so far
    elections,        \* number of leader changes so far
    rotated,          \* key of the last installKey call that returned nil
    clean,            \* every keyring RPC of this attempt has succeeded so far
    foreign,          \* another instance mutated the keyring for another key
                      \* during this attempt
    pending,          \* key of the latest attempt if it ended without a
                      \* successful KeyringUse, NoKey otherwise
    installOk,        \* KeyringInstall(newKey) returned nil in this attempt
    pods,             \* names of the inject-labelled pods in Kubernetes
    catalog,          \* service instances registered in Consul
    cpc,              \* position of CleanupResource.Reconcile
    label,            \* argument of validLabel
    labelOk,          \* result of validLabel: "true", "false", or "unset"
    rpc,              \* position of CleanupResource.Run
    stopped,          \* stopCh is closed
    timerFired,       \* reconcileTimer.C holds a value
    reconciles,       \* number of Reconcile calls Run has made
    lpc,              \* position of lifecycle-sidecar's Run
    flagSyncPeriod,   \* the -sync-period flag, in seconds
    flagsSet,         \* the other flags pass validateFlags
    signalled,        \* SIGINT or SIGTERM was delivered to sigCh
    cancelled,        \* cancelFunc() was called: ctx.Done() is closed
    afterFired,       \* the channel of time.After(c.flagSyncPeriod) holds a value
    lastSync,         \* outcome of the latest registration command
    syncs,            \* number of registration commands run so far
    ipc,              \* position of the install command's Run
    flagDryRun,       \* the -dry-run flag
    flagSkipConfirm,  \* the -skip-confirm flag
    releases,         \* chart names of the Helm releases in the cluster
    pvcs,             \* names of the PersistentVolumeClaims in the cluster
    secrets,          \* names of the Secrets in the cluster
    confirmation,     \* what the user typed at the prompt
    prompted,         \* c.UI.Input was called
    helmRuns,         \* number of install.Run calls
    failure           \* why Run returned 1, "none" otherwise

cluster == <<holds, primary>>
env == <<variant, running, file, leader, writes, elections>>
watch == <<events, watching>>
locals == <<event, leaderAddr, newKey, checksum, i, keyringList, todo, err>>
ghost == <<sawFull, useOk, rotated, clean, foreign, pending, installOk>>
\* The variables of the sidecars.
rotation == <<env, cluster, pc, watch, currentChecksum, locals, ghost>>
\* The variables of CleanupResource and of the install command.
cleanup == <<pods, catalog, cpc>>
install == <<label, labelOk>>
\* The variables of CleanupResource.Run.
run == <<rpc, stopped, timerFired, reconciles>>
\* The variables of lifecycle-sidecar.
lifecycle == <<lpc, flagSyncPeriod, flagsSet, signalled, cancelled, afterFired, lastSync, syncs>>
\* The variables of the install command's Run.
helm == <<ipc, flagDryRun, flagSkipConfirm, releases, pvcs, secrets, confirmation, prompted,
          helmRuns, failure>>
others == <<cleanup, install, run, lifecycle, helm>>
vars == <<rotation, others>>

\* ------------------------------------------------------ pure functions

\* md5.Sum(data), by its leading 16 bits.
Md5Sum(data) ==
    CASE data = ""  -> 54301
      [] data = "A" -> 32709
      [] data = "B" -> 40286
      [] OTHER      -> 3425

\* crc32.Checksum(data, Castagnoli table), by its leading 16 bits.
Crc32c(data) ==
    CASE data = ""  -> 0
      [] data = "A" -> 57709
      [] data = "B" -> 62013
      [] OTHER      -> 86

\* An address as Status().Leader() returns it: "host:port", or "" when no
\* leader is known or the call failed.
EmptyAddr == << >>
AddrOf(n) == <<n, 8300>>
\* strings.Split(leader, ":")[0]
SplitHost(addr) == addr[1]
\* os.Getenv("POD_IP") of instance p: the address of p's node.
PodIP(p) == p

\* The leadership gate of rotation-sidecar's Run.
GateNoHostCheck(p, addr) == addr # EmptyAddr
GateOpen(p, addr) == TRUE
Gate(p, addr) == addr # EmptyAddr /\ SplitHost(addr) = PodIP(p)

\* `checksum != currentChecksum` / `chksum != currentCRC`.
ChangedAlways(sum, cur) == TRUE
Changed(sum, cur) == sum # cur

\* What a successful KeyringList reports: per key the number of nodes that
\* hold it (keys with count 0 are not in the map); NumNodes is the total.
KeyCounts == [k \in Keys |-> Cardinality({n \in Nodes : k \in holds[n]})]
NoListing == [k \in Keys |-> 0]
NeverListed(l, k) == FALSE
InListing(l, k) == k \in Keys /\ l[k] > 0
ListedKeys(l) == {k \in Keys : l[k] > 0}
FullyPropagated(l, k) == k \in Keys /\ l[k] = NumNodes

\* The key is 16, 24 or 32 bytes of base64: the empty string is not a key.
ValidKey(k) == k \in Keys

\* --------------------------------------------------------------- Init
\* The state after start-up: the file holds key A, which is the primary key
\* of every member; every member also holds the keys of `stale`; Run has
\* read the file and taken its checksum.
Start(instances, stale) ==
    /\ variant \in Variants
    /\ running = instances
    /\ file = "A"
    /\ writes = 0
    /\ elections = 0
    /\ leader = 1
    /\ holds = [n \in Nodes |-> {"A"} \cup stale]
    /\ primary = [n \in Nodes |-> "A"]
    /\ pc = [p \in Servers |-> "select"]
    /\ events = [p \in Servers |-> {}]
    /\ watching = [p \in Servers |-> p \in instances /\ variant = "sidecar"]
    /\ currentChecksum =
         [p \in Servers |-> IF variant = "sidecar" THEN Md5Sum("A") ELSE Crc32c("A")]
    /\ event = [p \in Servers |-> NoEvent]
    /\ leaderAddr = [p \in Servers |-> EmptyAddr]
    /\ newKey = [p \in Servers |-> NoKey]
    /\ checksum = [p \in Servers |-> 0]
    /\ i = [p \in Servers |-> 0]
    /\ keyringList = [p \in Servers |-> NoListing]
    /\ todo = [p \in Servers |-> {}]
    /\ err = [p \in Servers |-> FALSE]
    /\ sawFull = [p \in Servers |-> FALSE]
    /\ useOk = [p \in Servers |-> FALSE]
    /\ rotated = [p \in Servers |-> NoKey]
    /\ clean = [p \in Servers |-> FALSE]
    /\ foreign = [p \in Servers |-> FALSE]
    /\ pending = [p \in Servers |-> NoKey]
    /\ installOk = [p \in Servers |-> FALSE]

\* The values of the -sync-period flag that are tried.
SyncPeriods == {-1, 0, 10}

\* lifecycle-sidecar's Run has been called with some flags.
LifecycleStart ==
    /\ lpc = "validate"
    /\ flagSyncPeriod \in SyncPeriods
    /\ flagsSet \in BOOLEAN
    /\ signalled = FALSE
    /\ cancelled = FALSE
    /\ afterFired = FALSE
    /\ lastSync = "none"
    /\ syncs = 0

\* lifecycle-sidecar is not run.
LifecycleIdle == LifecycleStart /\ flagSyncPeriod = 10 /\ flagsSet

\* Names are kept as the sequence of their dash-separated parts, and what
\* the user types as the sequence of its character codes.
Charts == {"consul", "nginx"}
PvcNames == {<<"data", "consul", "server", "0">>, <<"data", "mysql", "0">>}
SecretNames == {<<"consul", "bootstrap", "acl", "token">>, <<"consul", "gossip", "key">>}
\* Characters by their code: '\n', 'Y', 'e', 'n', 's', 'y'.
Typed == {10, 89, 101, 110, 115, 121}
\* Longest line typed at the prompt that is tried.
MaxAnswerLen == 4
Answers == UNION {[1..n -> Typed] : n \in 0..MaxAnswerLen}

\* The install command's Run has been called with some flags, on some cluster.
HelmStart ==
    /\ ipc = "validate"
    /\ flagDryRun \in BOOLEAN
    /\ flagSkipConfirm \in BOOLEAN
    /\ releases \in SUBSET Charts
    /\ pvcs \in SUBSET PvcNames
    /\ secrets \in SUBSET SecretNames
    /\ confirmation = << >>
    /\ prompted = FALSE
    /\ helmRuns = 0
    /\ failure = "none"

\* The install command is not run.
HelmIdle ==
    /\ HelmStart
    /\ ~flagDryRun /\ ~flagSkipConfirm
    /\ releases = {} /\ pvcs = {} /\ secrets = {}

\* CleanupResource has not reconciled and validLabel has not been called.
OthersIdle ==
    /\ pods = {}
    /\ catalog = {}
    /\ cpc = "idle"
    /\ label = << >>
    /\ labelOk = "unset"
    /\ rpc = "start"
    /\ stopped = FALSE
    /\ timerFired = FALSE
    /\ reconciles = 0
    /\ LifecycleIdle
    /\ HelmIdle

\* One sidecar instance, beside server 1.
Init == Start({1}, {}) /\ OthersIdle
\* A sidecar instance beside every server.
InitFleet == Start(Servers, {}) /\ OthersIdle
\* One sidecar instance; an earlier rotation left a stale key behind.
InitStale == Start({1}, StaleKeys) /\ OthersIdle
\* One sidecar instance, beside server 2, which is not the leader at first.
InitFollower == Start({2}, {}) /\ OthersIdle
\* No sidecar instance runs.
RotationIdle == Start({}, {}) /\ variant = "sidecar"

\* ------------------------------------------------ the cluster's keyring
\* A keyring RPC reaches the nodes in `reach`; it fails unless it reached
\* every node and every node succeeded.

\* KeyringInstall(k): every node reached adds k (installing a key that is
\* present is a no-op success).
InstallOn(reach, k) ==
    [n \in Nodes |-> IF n \in reach /\ ValidKey(k) THEN holds[n] \cup {k} ELSE holds[n]]
InstallSucceeds(reach, k) == reach = Nodes /\ ValidKey(k)

\* KeyringUse(k): every node reached that holds k makes it its primary key;
\* a node that does not hold k reports an error.
UseOn(reach, k) ==
    [n \in Nodes |-> IF n \in reach /\ k \in holds[n] THEN k ELSE primary[n]]
UseSucceeds(reach, k) == reach = Nodes /\ \A n \in Nodes : k \in holds[n]

\* KeyringRemove(k): every node reached drops k, except that a node refuses
\* to remove its primary key (removing an absent key is a no-op success).
RemoveOn(reach, k) ==
    [n \in Nodes |-> IF n \in reach /\ primary[n] # k THEN holds[n] \ {k} ELSE holds[n]]
RemoveSucceeds(reach, k) == reach = Nodes /\ \A n \in Nodes : primary[n] # k

\* ------------------------------------------------------- environment
\* The secret file is rewritten in place (possibly with the same bytes).
WriteFile(c) ==
    /\ writes < MaxWrites
    /\ writes' = writes + 1
    /\ file' = c
    /\ events' = [p \in Servers |-> IF watching[p] THEN events[p] \cup {"Write"} ELSE events[p]]
    /\ UNCHANGED <<others, variant, running, leader, elections, cluster, pc, watching, currentChecksum, locals, ghost>>

\* The secret file is replaced (removed and created again, as a secret
\* mount does): the watchers report Remove and lose the path.
ReplaceFile(c) ==
    /\ writes < MaxWrites
    /\ writes' = writes + 1
    /\ file' = c
    /\ events' = [p \in Servers |-> IF watching[p] THEN events[p] \cup {"Remove"} ELSE events[p]]
    /\ watching' = [p \in Servers |-> FALSE]
    /\ UNCHANGED <<others, variant, running, leader, elections, cluster, pc, currentChecksum, locals, ghost>>

\* The cluster elects another leader, or loses its leader.
LeaderChange(l) ==
    /\ variant = "sidecar"
    /\ l # leader
    /\ elections < MaxElections
    /\ elections' = elections + 1
    /\ leader' = l
    /\ UNCHANGED <<others, variant, running, file, writes, cluster, pc, watch, currentChecksum, locals, ghost>>

\* ------------------------------------------ rotation-sidecar: Command.Run

\* Positions inside installKey (an attempt is running).
AttemptPcs == {"oldlist", "install", "poll", "use", "remove", "ret"}

\* What a KeyringList call can return: a listing, an error, or success with
\* zero KeyringResponse entries.
ListOutcomes == {"ok", "err", "empty"}

\* The locals of Run's case body and of installKey, once they are dead.
ResetLocals(p) ==
    /\ event' = [event EXCEPT ![p] = NoEvent]
    /\ leaderAddr' = [leaderAddr EXCEPT ![p] = EmptyAddr]
    /\ newKey' = [newKey EXCEPT ![p] = NoKey]
    /\ checksum' = [checksum EXCEPT ![p] = 0]
    /\ i' = [i EXCEPT ![p] = 0]
    /\ keyringList' = [keyringList EXCEPT ![p] = NoListing]
    /\ todo' = [todo EXCEPT ![p] = {}]
    /\ err' = [err EXCEPT ![p] = FALSE]
    /\ sawFull' = [sawFull EXCEPT ![p] = FALSE]
    /\ useOk' = [useOk EXCEPT ![p] = FALSE]
    /\ clean' = [clean EXCEPT ![p] = FALSE]
    /\ foreign' = [foreign EXCEPT ![p] = FALSE]
    /\ installOk' = [installOk EXCEPT ![p] = FALSE]

\* Run is at the top of its loop: in the select (rotation-sidecar) or in the
\* sleep (rotatoe).  No case is received while a case body or installKey runs.
Anywhere(p) == TRUE
InSelect(p) == pc[p] = "select"

\* `err == nil`: whether Run commits the checksum after installKey.
CommitsAlways(e) == TRUE
Commits(e) == ~e

\* A keyring RPC of instance p's attempt returned: `clean` records a failure.
Outcome(p, ok) == clean' = [clean EXCEPT ![p] = @ /\ ok]

\* Instance q makes a mutating keyring call: every other instance that is in
\* an attempt for another key records it.
Disturb(q) ==
    foreign' = [p \in Servers |->
                  foreign[p] \/ (p # q /\ pc[p] \in AttemptPcs /\ newKey[p] # newKey[q])]

\* case event := <-watcher.Events: the event is received and the leader
\* looked up (`leader, _ := c.consulClient.Status().Leader()`).
SEvent(p) ==
    /\ variant = "sidecar"
    /\ p \in running
    /\ InSelect(p)
    /\ \E op \in events[p], lookupOk \in BOOLEAN :
         /\ events' = [events EXCEPT ![p] = @ \ {op}]
         /\ event' = [event EXCEPT ![p] = op]
         /\ leaderAddr' = [leaderAddr EXCEPT ![p] =
                IF lookupOk /\ leader # NoLeader THEN AddrOf(leader) ELSE EmptyAddr]
    /\ pc' = [pc EXCEPT ![p] = "gate"]
    /\ UNCHANGED <<others, env, cluster, watching, currentChecksum, newKey, checksum, i,
                   keyringList, todo, err, ghost>>

\* The rest of the case: the gate, the re-add of the watch after a Remove,
\* the read of the file and the comparison of the checksums.
SHandle(p) ==
    /\ variant = "sidecar"
    /\ p \in running
    /\ pc[p] = "gate"
    /\ watching' = [watching EXCEPT ![p] =
                      @ \/ (event[p] = "Remove" /\ Gate(p, leaderAddr[p]))]
    /\ IF ~Gate(p, leaderAddr[p])
       THEN /\ pc' = [pc EXCEPT ![p] = "select"]
            /\ event' = [event EXCEPT ![p] = NoEvent]
            /\ leaderAddr' = [leaderAddr EXCEPT ![p] = EmptyAddr]
            /\ UNCHANGED <<newKey, checksum, clean, foreign>>
       ELSE \E readOk \in BOOLEAN :
                 LET sum == Md5Sum(file)
                 IN  IF readOk /\ Changed(sum, currentChecksum[p])
                     THEN /\ pc' = [pc EXCEPT ![p] = "oldlist"]
                          /\ newKey' = [newKey EXCEPT ![p] = file]
                          /\ checksum' = [checksum EXCEPT ![p] = sum]
                          /\ clean' = [clean EXCEPT ![p] = TRUE]
                          /\ foreign' = [foreign EXCEPT ![p] = FALSE]
                          /\ UNCHANGED <<event, leaderAddr>>
                     ELSE /\ pc' = [pc EXCEPT ![p] = "select"]
                          /\ event' = [event EXCEPT ![p] = NoEvent]
                          /\ leaderAddr' = [leaderAddr EXCEPT ![p] = EmptyAddr]
                          /\ UNCHANGED <<newKey, checksum, clean, foreign>>
    /\ UNCHANGED <<others, env, cluster, events, currentChecksum, i, keyringList, todo, err,
                   sawFull, useOk, rotated, pending, installOk>>

\* case err := <-watcher.Errors: errCh is unbuffered and has no reader.
SWatcherError(p) ==
    /\ variant = "sidecar"
    /\ p \in running
    /\ InSelect(p)
    /\ pc' = [pc EXCEPT ![p] = "blocked"]
    /\ UNCHANGED <<others, env, cluster, watch, currentChecksum, locals, ghost>>

\* case <-time.After(600 * time.Second): the select takes the timer's case.
STimer(p) ==
    /\ variant = "sidecar"
    /\ p \in running
    /\ InSelect(p)
    /\ pc' = [pc EXCEPT ![p] = "timer"]
    /\ UNCHANGED <<others, env, cluster, watch, currentChecksum, locals, ghost>>

\* The body of the timer's case: c.logger.Info("Reconcile Timer."), and the
\* loop goes on.
STimerBody(p) ==
    /\ variant = "sidecar"
    /\ p \in running
    /\ pc[p] = "timer"
    /\ pc' = [pc EXCEPT ![p] = "select"]
    /\ UNCHANGED <<others, env, cluster, watch, currentChecksum, locals, ghost>>

\* case <-c.sigCh: the select receives the signal.
SSignal(p) ==
    /\ variant = "sidecar"
    /\ p \in running
    /\ InSelect(p)
    /\ pc' = [pc EXCEPT ![p] = "signal"]
    /\ UNCHANGED <<others, env, cluster, watch, currentChecksum, locals, ghost>>

\* The body of the signal's case: `break` leaves the select, and the for
\* loop goes on.
SBreak(p) ==
    /\ variant = "sidecar"
    /\ p \in running
    /\ pc[p] = "signal"
    /\ pc' = [pc EXCEPT ![p] = "select"]
    /\ UNCHANGED <<others, env, cluster, watch, currentChecksum, locals, ghost>>

\* `if err := c.installKey(string(data)); err == nil { currentChecksum = checksum }`
SReturn(p) ==
    /\ variant = "sidecar"
    /\ p \in running
    /\ pc[p] = "ret"
    /\ pc' = [pc EXCEPT ![p] = "select"]
    /\ IF Commits(err[p])
       THEN /\ currentChecksum' = [currentChecksum EXCEPT ![p] = checksum[p]]
            /\ rotated' = [rotated EXCEPT ![p] = newKey[p]]
       ELSE UNCHANGED <<currentChecksum, rotated>>
    /\ pending' = [pending EXCEPT ![p] = IF useOk[p] THEN NoKey ELSE newKey[p]]
    /\ ResetLocals(p)
    /\ UNCHANGED <<others, env, cluster, watch>>

\* ------------------------------------ rotation-sidecar: Command.installKey

\* Whether the removal loop goes on to the next key after a KeyringRemove.
StopsOnError(rest, ok) == rest # {} /\ ok
GoesOn(rest, ok) == rest # {}

\* Where installKey goes once the listing's keys were walked for newKey:
\* the removal loop over the keys of the listing other than newKey.
ToRemovalSkips(p, l) ==
    /\ todo' = [todo EXCEPT ![p] = {}]
    /\ pc' = [pc EXCEPT ![p] = "ret"]
ToRemovalAll(p, l) ==
    /\ todo' = [todo EXCEPT ![p] = ListedKeys(l)]
    /\ pc' = [pc EXCEPT ![p] = IF ListedKeys(l) = {} THEN "ret" ELSE "remove"]
ToRemoval(p, l) ==
    LET stale == ListedKeys(l) \ {newKey[p]}
    IN  /\ todo' = [todo EXCEPT ![p] = stale]
        /\ pc' = [pc EXCEPT ![p] = IF stale = {} THEN "ret" ELSE "remove"]

\* oldkeyringList, err := KeyringList(nil); an error is returned, and
\* oldkeyringList[0] panics when the list is empty.
SOldList(p) ==
    /\ variant = "sidecar"
    /\ p \in running
    /\ pc[p] = "oldlist"
    /\ \E res \in ListOutcomes :
         /\ Outcome(p, res = "ok")
         /\ CASE res = "ok" ->
                   /\ pc' = [pc EXCEPT ![p] = "install"]
                   /\ sawFull' = [sawFull EXCEPT ![p] = FullyPropagated(KeyCounts, newKey[p])]
                   /\ UNCHANGED err
              [] res = "err" ->
                   /\ pc' = [pc EXCEPT ![p] = "ret"]
                   /\ err' = [err EXCEPT ![p] = TRUE]
                   /\ UNCHANGED sawFull
              [] res = "empty" ->
                   /\ pc' = [pc EXCEPT ![p] = "crashed"]
                   /\ UNCHANGED <<err, sawFull>>
    /\ UNCHANGED <<others, env, cluster, watch, currentChecksum, event, leaderAddr, newKey,
                   checksum, i, keyringList, todo, useOk, rotated, foreign, pending,
                   installOk>>

\* err = KeyringInstall(newKey, nil); an error is returned.
SInstall(p) ==
    /\ variant = "sidecar"
    /\ p \in running
    /\ pc[p] = "install"
    /\ \E reach \in SUBSET Nodes :
         /\ holds' = InstallOn(reach, newKey[p])
         /\ Outcome(p, InstallSucceeds(reach, newKey[p]))
         /\ installOk' = [installOk EXCEPT ![p] = InstallSucceeds(reach, newKey[p])]
         /\ IF InstallSucceeds(reach, newKey[p])
            THEN /\ pc' = [pc EXCEPT ![p] = "poll"]
                 /\ i' = [i EXCEPT ![p] = 0]
                 /\ UNCHANGED err
            ELSE /\ pc' = [pc EXCEPT ![p] = "ret"]
                 /\ err' = [err EXCEPT ![p] = TRUE]
                 /\ UNCHANGED i
    /\ Disturb(p)
    /\ UNCHANGED <<others, env, primary, watch, currentChecksum, event, leaderAddr, newKey,
                   checksum, keyringList, todo, sawFull, useOk, rotated, pending>>

\* One iteration of `for i := 0; i < 100; i++`, up to the walk over the
\* listing: the KeyringList call; on an error `continue`, and `return nil`
\* once the loop is exhausted; keyringList[0] panics when the list is empty.
SPoll(p) ==
    /\ variant = "sidecar"
    /\ p \in running
    /\ pc[p] = "poll"
    /\ \E res \in ListOutcomes :
         /\ Outcome(p, res = "ok")
         /\ CASE res = "ok" ->
                   /\ keyringList' = [keyringList EXCEPT ![p] = KeyCounts]
                   /\ sawFull' = [sawFull EXCEPT ![p] = @ \/ FullyPropagated(KeyCounts, newKey[p])]
                   /\ IF InListing(KeyCounts, newKey[p])
                      THEN /\ pc' = [pc EXCEPT ![p] = "use"]
                           /\ UNCHANGED todo
                      ELSE ToRemoval(p, KeyCounts)
                   /\ UNCHANGED i
              [] res = "err" ->
                   /\ i' = [i EXCEPT ![p] = @ + 1]
                   /\ pc' = [pc EXCEPT ![p] = IF i[p] + 1 < MaxPolls THEN "poll" ELSE "ret"]
                   /\ UNCHANGED <<keyringList, sawFull, todo>>
              [] res = "empty" ->
                   /\ pc' = [pc EXCEPT ![p] = "crashed"]
                   /\ UNCHANGED <<i, keyringList, sawFull, todo>>
    /\ UNCHANGED <<others, env, cluster, watch, currentChecksum, event, leaderAddr, newKey,
                   checksum, err, useOk, rotated, foreign, pending, installOk>>

\* KeyringUse(newKey, nil) for the listing's entry that equals newKey; on an
\* error `continue` goes on with the walk over the listing's keys.
SUse(p) ==
    /\ variant = "sidecar"
    /\ p \in running
    /\ pc[p] = "use"
    /\ \E reach \in SUBSET Nodes :
         /\ primary' = UseOn(reach, newKey[p])
         /\ useOk' = [useOk EXCEPT ![p] = UseSucceeds(reach, newKey[p])]
         /\ Outcome(p, UseSucceeds(reach, newKey[p]))
    /\ ToRemoval(p, keyringList[p])
    /\ Disturb(p)
    /\ UNCHANGED <<others, env, holds, watch, currentChecksum, event, leaderAddr, newKey,
                   checksum, i, keyringList, err, sawFull, rotated, pending, installOk>>

\* KeyringRemove(x, nil) for one key x # newKey of the listing; an error is
\* logged.  After the last one: `return nil`.
SRemove(p) ==
    /\ variant = "sidecar"
    /\ p \in running
    /\ pc[p] = "remove"
    /\ \E x \in todo[p], reach \in SUBSET Nodes :
         LET rest == todo[p] \ {x}
         IN  /\ holds' = RemoveOn(reach, x)
             /\ Outcome(p, RemoveSucceeds(reach, x))
             /\ todo' = [todo EXCEPT ![p] = rest]
             /\ pc' = [pc EXCEPT ![p] =
                         IF GoesOn(rest, RemoveSucceeds(reach, x)) THEN "remove" ELSE "ret"]
    /\ Disturb(p)
    /\ UNCHANGED <<others, env, primary, watch, currentChecksum, event, leaderAddr, newKey,
                   checksum, i, keyringList, err, sawFull, useOk, rotated, pending,
                   installOk>>

\* ------------------------------------------------- rotatoe: Command.Run
\* (clean, foreign and pending are kept for rotation-sidecar only.)

\* installKey returns (always nil); Run logs and sleeps again.
RDone(p) ==
    /\ pc' = [pc EXCEPT ![p] = "select"]
    /\ rotated' = [rotated EXCEPT ![p] = newKey[p]]
    /\ ResetLocals(p)

\* One iteration of Run's loop: the read of the file (an error is logged
\* and the empty buffer used), the checksum, and the commit on detection.
RTick(p) ==
    /\ variant = "rotatoe"
    /\ p \in running
    /\ InSelect(p)
    /\ \E readOk \in BOOLEAN :
         LET inputFileContents == IF readOk THEN file ELSE ""
             chksum == Crc32c(inputFileContents)
         IN  IF Changed(chksum, currentChecksum[p])
             THEN /\ currentChecksum' = [currentChecksum EXCEPT ![p] = chksum]
                  /\ newKey' = [newKey EXCEPT ![p] = inputFileContents]
                  /\ pc' = [pc EXCEPT ![p] = "install"]
             ELSE UNCHANGED <<currentChecksum, newKey, pc>>
    /\ UNCHANGED <<others, env, cluster, watch, event, leaderAddr, checksum, i, keyringList,
                   todo, err, ghost>>

\* --------------------------------------------- rotatoe: Command.installKey

\* err := KeyringInstall(newKey, nil); an error is logged.
RInstall(p) ==
    /\ variant = "rotatoe"
    /\ p \in running
    /\ pc[p] = "install"
    /\ \E reach \in SUBSET Nodes :
         /\ holds' = InstallOn(reach, newKey[p])
         /\ installOk' = [installOk EXCEPT ![p] = InstallSucceeds(reach, newKey[p])]
    /\ pc' = [pc EXCEPT ![p] = "poll"]
    /\ i' = [i EXCEPT ![p] = 0]
    /\ UNCHANGED <<others, env, primary, watch, currentChecksum, event, leaderAddr, newKey,
                   checksum, keyringList, todo, err, sawFull, useOk, rotated, clean, foreign,
                   pending>>

\* One iteration of `for i := 0; i < 100; i++`: the KeyringList call and the
\* lookup of newKey in the listing; keyringList[0] panics when the list is
\* empty.
RPoll(p) ==
    /\ variant = "rotatoe"
    /\ p \in running
    /\ pc[p] = "poll"
    /\ \E res \in ListOutcomes :
         IF res = "empty"
         THEN /\ pc' = [pc EXCEPT ![p] = "crashed"]
              /\ UNCHANGED <<locals, ghost>>
         ELSE IF res = "ok" /\ InListing(KeyCounts, newKey[p])
         THEN /\ keyringList' = [keyringList EXCEPT ![p] = KeyCounts]
              /\ sawFull' = [sawFull EXCEPT ![p] = @ \/ FullyPropagated(KeyCounts, newKey[p])]
              /\ pc' = [pc EXCEPT ![p] = "use"]
              /\ UNCHANGED <<event, leaderAddr, i, newKey, checksum, todo, err, useOk, rotated,
                             clean, foreign, pending, installOk>>
         ELSE IF i[p] + 1 < MaxPolls
              THEN /\ i' = [i EXCEPT ![p] = @ + 1]
                   /\ UNCHANGED <<pc, event, leaderAddr, newKey, checksum, keyringList,
                                  todo, err, ghost>>
              ELSE RDone(p) /\ UNCHANGED pending
    /\ UNCHANGED <<others, env, cluster, watch, currentChecksum>>

\* What rotatoe's installKey does to the installed keys after KeyringUse:
\* nothing, it returns (there is no KeyringRemove call in rotatoe).
RemovesOthers(p) ==
    holds' = [n \in Nodes |-> holds[n] \cap {newKey[p], primary'[n]}]
NoRemoval(p) == holds' = holds

\* err = KeyringUse(newKey, nil); an error is logged; return nil.
RUse(p) ==
    /\ variant = "rotatoe"
    /\ p \in running
    /\ pc[p] = "use"
    /\ \E reach \in SUBSET Nodes : primary' = UseOn(reach, newKey[p])
    /\ NoRemoval(p)
    /\ RDone(p)
    /\ UNCHANGED <<others, env, watch, currentChecksum, pending>>

\* ------------------------------ connect-inject: CleanupResource.Reconcile

\* Names of pods and of Consul services.
PodNames == {"pod-a", "pod-b"}
ServiceNames == {"web", "db"}
\* A registered service instance (api.CatalogService): its service name and
\* its ServiceMeta["pod-name"], "" when it has none.
Instances == [name : ServiceNames, pod : PodNames \cup {""}]

\* Catalog().Services: the names that have an instance.
ServicesList == {inst.name : inst \in catalog}
\* Catalog().Service(serviceName): the instances of that name.
ServiceOf(name) == {inst \in catalog : inst.name = name}
\* The choices of service[0] for every listed name (the order of the
\* instances in the response is Consul's).
FirstInstances == {f \in [ServicesList -> catalog] : \A n \in ServicesList : f[n] \in ServiceOf(n)}
\* A registered instance whose pod-name names no pod of the list.
Orphan(inst) == inst.pod \notin pods

\* A pod with the inject label is created / deleted.
PodCreated(n) ==
    /\ cpc # "panicked"
    /\ n \notin pods
    /\ pods' = pods \cup {n}
    /\ cpc' = "idle"
    /\ UNCHANGED <<rotation, helm, lifecycle, install, run, catalog>>

PodDeleted(n) ==
    /\ cpc # "panicked"
    /\ n \in pods
    /\ pods' = pods \ {n}
    /\ cpc' = "idle"
    /\ UNCHANGED <<rotation, helm, lifecycle, install, run, catalog>>

\* A service instance is registered in Consul.
Register(inst) ==
    /\ cpc # "panicked"
    /\ inst \notin catalog
    /\ catalog' = catalog \cup {inst}
    /\ cpc' = "idle"
    /\ UNCHANGED <<rotation, helm, lifecycle, install, run, pods>>

\* `if err != nil { ...; return err }` after the list of the pods: Reconcile
\* returns before it has looked at a service.
DeregistersAndFails(deregList) == cpc' = "failed" /\ catalog' = catalog \ deregList
PodsListFailed(deregList) == cpc' = "failed" /\ UNCHANGED catalog

\* One call of Reconcile.  podMap is declared and never made, so the write
\* podMap[pod.Name] panics for the first pod of the list; service[0] panics
\* when Catalog().Service failed.  Of every listed name only service[0] is
\* looked at and deregistered.
ReconcileCall ==
    /\ cpc # "panicked"
    /\ \E servicesOk, podsOk, serviceOk \in BOOLEAN, first \in FirstInstances,
          deregFails \in SUBSET catalog :
         LET servicesList == IF servicesOk THEN ServicesList ELSE {}
             deregList == {first[n] : n \in {m \in servicesList : Orphan(first[m])}}
         IN  IF ~podsOk
             THEN PodsListFailed(deregList)
             ELSE IF pods # {}
             THEN cpc' = "panicked" /\ UNCHANGED catalog
             ELSE IF servicesList # {} /\ ~serviceOk
             THEN cpc' = "panicked" /\ UNCHANGED catalog
             ELSE /\ catalog' = catalog \ (deregList \ deregFails)
                  /\ cpc' = IF servicesOk /\ deregList \cap deregFails = {}
                            THEN "done" ELSE "incomplete"
    /\ UNCHANGED <<rotation, helm, lifecycle, install, pods>>

\* Reconcile is called on its own.
Reconcile == ReconcileCall /\ UNCHANGED run

NextCleanup ==
    \/ \E n \in PodNames : PodCreated(n)
    \/ \E n \in PodNames : PodDeleted(n)
    \/ \E inst \in Instances : Register(inst)
    \/ Reconcile

InitCleanup == RotationIdle /\ OthersIdle
SpecCleanup == InitCleanup /\ [][NextCleanup]_vars

\* ---------------------------------- connect-inject: CleanupResource.Run

\* Most Reconcile calls of one run that are followed.
MaxReconciles == 3

\* Where Run is after a Reconcile call: an error is logged and Run goes on;
\* a panic of Reconcile ends the process.
ReturnsOnError(res) ==
    CASE res = "panicked" -> "panicked"
      [] res = "failed" -> "returned"
      [] OTHER -> "select"
KeepsRunning(res) == IF res = "panicked" THEN "panicked" ELSE "select"

\* stopCh is closed.
Stop ==
    /\ ~stopped
    /\ rpc \in {"start", "select"}
    /\ stopped' = TRUE
    /\ UNCHANGED <<rotation, helm, lifecycle, cleanup, install, rpc, timerFired, reconciles>>

\* ReconcilePeriod expires: the timer delivers on reconcileTimer.C.
TimerExpires ==
    /\ rpc = "select"
    /\ ~timerFired
    /\ timerFired' = TRUE
    /\ UNCHANGED <<rotation, helm, lifecycle, cleanup, install, rpc, stopped, reconciles>>

\* err := c.Reconcile() at startup, then time.NewTimer(c.ReconcilePeriod).
RunStartup ==
    /\ rpc = "start"
    /\ ReconcileCall
    /\ reconciles' = reconciles + 1
    /\ rpc' = KeepsRunning(cpc')
    /\ UNCHANGED <<stopped, timerFired>>

\* case <-stopCh: return (the deferred reconcileTimer.Stop() runs).
RunStopCase ==
    /\ rpc = "select"
    /\ stopped
    /\ rpc' = "returned"
    /\ timerFired' = FALSE
    /\ UNCHANGED <<rotation, helm, lifecycle, cleanup, install, stopped, reconciles>>

\* case <-reconcileTimer.C: Reconcile, then reconcileTimer.Reset.
RunTimerCase ==
    /\ rpc = "select"
    /\ timerFired
    /\ reconciles < MaxReconciles
    /\ ReconcileCall
    /\ reconciles' = reconciles + 1
    /\ rpc' = KeepsRunning(cpc')
    /\ timerFired' = FALSE
    /\ UNCHANGED stopped

NextRun ==
    \/ \E n \in PodNames : PodCreated(n)
    \/ \E n \in PodNames : PodDeleted(n)
    \/ \E inst \in Instances : Register(inst)
    \/ Stop
    \/ TimerExpires
    \/ RunStartup
    \/ RunStopCase
    \/ RunTimerCase

SpecRun == InitCleanup /\ [][NextRun]_vars

\* --------------------------------------- lifecycle-sidecar: Command.Run

\* Most registration commands of one run that are followed.
MaxSyncs == 4

\* func (c *Command) validateFlags() error, as a boolean: no error.
validateFlags == flagsSet /\ flagSyncPeriod # 0

\* Where Run goes after the registration command: to the select, whether
\* the command failed or not.
ExitsOnFailure(ok) == IF ok THEN "select" ELSE "returned0"
AfterSync(ok) == "select"

\* Parse, validateFlags, the logger, the metrics server and the goroutine
\* that waits on sigCh; `return 1` on an error.
LValidate ==
    /\ lpc = "validate"
    /\ lpc' = IF validateFlags THEN "cmd" ELSE "returned1"
    /\ UNCHANGED <<rotation, helm, cleanup, install, run, flagSyncPeriod, flagsSet, signalled,
                   cancelled, afterFired, lastSync, syncs>>

\* SIGINT or SIGTERM arrives: signal.Notify puts it into sigCh.
LSignal ==
    /\ ~signalled
    /\ lpc \in {"validate", "cmd", "select"}
    /\ signalled' = TRUE
    /\ UNCHANGED <<rotation, helm, cleanup, install, run, lpc, flagSyncPeriod, flagsSet, cancelled,
                   afterFired, lastSync, syncs>>

\* The goroutine: case sig := <-c.sigCh: cancelFunc().
LCancel ==
    /\ lpc \in {"cmd", "select"}
    /\ signalled
    /\ ~cancelled
    /\ cancelled' = TRUE
    /\ UNCHANGED <<rotation, helm, cleanup, install, run, lpc, flagSyncPeriod, flagsSet, signalled,
                   afterFired, lastSync, syncs>>

\* exec.CommandContext(ctx, ...).CombinedOutput(): the registration command
\* runs and its outcome is logged; with ctx cancelled it fails.  Run then
\* enters the select, which makes a new time.After channel.
LSync ==
    /\ lpc = "cmd"
    /\ \E ok \in BOOLEAN :
         /\ cancelled => ~ok
         /\ lastSync' = IF ok THEN "synced" ELSE "failed"
         /\ lpc' = AfterSync(ok)
    /\ syncs' = syncs + 1
    /\ afterFired' = FALSE
    /\ UNCHANGED <<rotation, helm, cleanup, install, run, flagSyncPeriod, flagsSet, signalled,
                   cancelled>>

\* flagSyncPeriod has passed since the select was entered.
LAfter ==
    /\ lpc = "select"
    /\ ~afterFired
    /\ afterFired' = TRUE
    /\ UNCHANGED <<rotation, helm, cleanup, install, run, lpc, flagSyncPeriod, flagsSet, signalled,
                   cancelled, lastSync, syncs>>

\* case <-time.After(c.flagSyncPeriod): continue
LContinue ==
    /\ lpc = "select"
    /\ afterFired
    /\ syncs < MaxSyncs
    /\ lpc' = "cmd"
    /\ afterFired' = FALSE
    /\ UNCHANGED <<rotation, helm, cleanup, install, run, flagSyncPeriod, flagsSet, signalled,
                   cancelled, lastSync, syncs>>

\* case <-ctx.Done(): return 0
LDone ==
    /\ lpc = "select"
    /\ cancelled
    /\ lpc' = "returned0"
    /\ UNCHANGED <<rotation, helm, cleanup, install, run, flagSyncPeriod, flagsSet, signalled,
                   cancelled, afterFired, lastSync, syncs>>

NextLifecycle ==
    \/ LValidate
    \/ LSignal
    \/ LCancel
    \/ LSync
    \/ LAfter
    \/ LContinue
    \/ LDone

InitLifecycle ==
    /\ RotationIdle
    /\ pods = {} /\ catalog = {} /\ cpc = "idle"
    /\ label = << >> /\ labelOk = "unset"
    /\ rpc = "start" /\ stopped = FALSE /\ timerFired = FALSE /\ reconciles = 0
    /\ HelmIdle
    /\ LifecycleStart

\* The goroutine and the command run to their end; the select takes a
\* ready case at random, so ctx.Done() is taken once it stays or comes
\* ready again and again.
LifecycleFairness ==
    /\ WF_vars(LValidate) /\ WF_vars(LCancel) /\ WF_vars(LSync)
    /\ SF_vars(LDone)
SpecLifecycle == InitLifecycle /\ [][NextLifecycle]_vars /\ LifecycleFairness

\* ------------------------------------------- cli install: validLabel

\* Longest argument of validLabel that is tried.
MaxLabelLen == 3
\* Characters by their code: '-', '1', 'A', '_', 'a'.
Dash == 45
Alphabet == {45, 49, 65, 95, 97}
Labels == UNION {[1..n -> Alphabet] : n \in 0..MaxLabelLen}

\* func validLabel(s string) bool; idx is the index from 0 as `range s`
\* gives it, which for these one-byte characters is the position.
validLabel(s) ==
    \A k \in 1..Len(s) :
        LET c == s[k]
            idx == k - 1
            alphanum == (97 <= c /\ c <= 122) \/ (48 <= c /\ c <= 57)
        IN  IF idx # 0 /\ idx # Len(s) - 1
            THEN alphanum \/ (c = Dash)
            ELSE alphanum

\* The convention as validateFlags' error message states it: lower case
\* alphanumeric characters or '-', starting and ending with an alphanumeric.
IsAlphanumeric(c) == (97 <= c /\ c <= 122) \/ (48 <= c /\ c <= 57)
IsRfc1123Label(s) ==
    /\ Len(s) > 0
    /\ \A k \in 1..Len(s) : IsAlphanumeric(s[k]) \/ s[k] = Dash
    /\ IsAlphanumeric(s[1])
    /\ IsAlphanumeric(s[Len(s)])

\* validateFlags is called with a namespace flag.
NewLabel(s) ==
    /\ labelOk # "unset"
    /\ label' = s
    /\ labelOk' = "unset"
    /\ UNCHANGED <<rotation, helm, lifecycle, cleanup, run>>

\* validateFlags calls validLabel(c.flagNamespace).
Validate ==
    /\ labelOk = "unset"
    /\ labelOk' = IF validLabel(label) THEN "true" ELSE "false"
    /\ UNCHANGED <<rotation, helm, lifecycle, cleanup, run, label>>

NextLabel ==
    \/ \E s \in Labels : NewLabel(s)
    \/ Validate

InitLabel ==
    /\ RotationIdle
    /\ pods = {} /\ catalog = {} /\ cpc = "idle"
    /\ rpc = "start" /\ stopped = FALSE /\ timerFired = FALSE /\ reconciles = 0
    /\ LifecycleIdle
    /\ HelmIdle
    /\ label \in Labels
    /\ labelOk = "unset"
SpecLabel == InitLabel /\ [][NextLabel]_vars

\* --------------------------------------- cli install: Command.Run

\* strings.Contains(s, substr), on the parts of a name.
Contains(s, substr) ==
    \E k \in 0..(Len(s) - Len(substr)) : SubSeq(s, k + 1, k + Len(substr)) = substr

\* strings.TrimSuffix(confirmation, "\n")
TrimSuffix(a) == IF Len(a) > 0 /\ a[Len(a)] = 10 THEN SubSeq(a, 1, Len(a) - 1) ELSE a
\* strings.ToLower
ToLower(a) == [k \in 1..Len(a) |-> IF 65 <= a[k] /\ a[k] <= 90 THEN a[k] + 32 ELSE a[k]]
\* The test of the answer: it is "y" or "yes" after TrimSuffix and ToLower.
Confirmed(a) ==
    LET t == ToLower(TrimSuffix(a))
    IN  t = <<121>> \/ t = <<121, 101, 115>>

\* Run returns 1 for the given reason.
Exit1(why) == ipc' = "exit1" /\ failure' = why

\* Where Run goes once the values are merged: `if c.flagDryRun { return 0 }
\* else if !c.flagSkipConfirm { <prompt> }`, then the installation.
IgnoresDryRun(dry, skip) == IF ~skip THEN "prompt" ELSE "install"
AfterValues(dry, skip) ==
    IF dry THEN "exit0" ELSE IF ~skip THEN "prompt" ELSE "install"

\* validateFlags, the Helm action configuration and the Kubernetes client.
IValidate ==
    /\ ipc = "validate"
    /\ \E ok \in BOOLEAN :
         IF ok THEN ipc' = "releases" /\ UNCHANGED failure ELSE Exit1("setup")
    /\ UNCHANGED <<rotation, cleanup, install, run, lifecycle, flagDryRun, flagSkipConfirm,
                   releases, pvcs, secrets, confirmation, prompted, helmRuns>>

\* lister.Run() over all namespaces: a release of the chart "consul" is an
\* existing installation.
IReleases ==
    /\ ipc = "releases"
    /\ \E ok \in BOOLEAN :
         IF ~ok THEN Exit1("list")
         ELSE IF \E rel \in releases : rel = "consul" THEN Exit1("found")
         ELSE ipc' = "pvcs" /\ UNCHANGED failure
    /\ UNCHANGED <<rotation, cleanup, install, run, lifecycle, flagDryRun, flagSkipConfirm,
                   releases, pvcs, secrets, confirmation, prompted, helmRuns>>

\* The list of the PVCs: previousPVCs are those whose name contains
\* "consul-server".
IPvcs ==
    /\ ipc = "pvcs"
    /\ \E ok \in BOOLEAN :
         LET previousPVCs == {pvc \in pvcs : Contains(pvc, <<"consul", "server">>)}
         IN  IF ~ok THEN Exit1("list")
             ELSE IF previousPVCs # {} THEN Exit1("found")
             ELSE ipc' = "secrets" /\ UNCHANGED failure
    /\ UNCHANGED <<rotation, cleanup, install, run, lifecycle, flagDryRun, flagSkipConfirm,
                   releases, pvcs, secrets, confirmation, prompted, helmRuns>>

\* The list of the secrets: one whose name contains
\* "consul-bootstrap-acl-token" is left from an earlier installation.
ISecrets ==
    /\ ipc = "secrets"
    /\ \E ok \in BOOLEAN :
         IF ~ok THEN Exit1("list")
         ELSE IF \E secret \in secrets :
                    Contains(secret, <<"consul", "bootstrap", "acl", "token">>)
              THEN Exit1("found")
         ELSE ipc' = "values" /\ UNCHANGED failure
    /\ UNCHANGED <<rotation, cleanup, install, run, lifecycle, flagDryRun, flagSkipConfirm,
                   releases, pvcs, secrets, confirmation, prompted, helmRuns>>

\* v.MergeValues(p) and the preset; the summary is printed; then the
\* dry-run and skip-confirm branches.
IValues ==
    /\ ipc = "values"
    /\ \E ok \in BOOLEAN :
         IF ~ok THEN Exit1("values")
         ELSE ipc' = AfterValues(flagDryRun, flagSkipConfirm) /\ UNCHANGED failure
    /\ UNCHANGED <<rotation, cleanup, install, run, lifecycle, flagDryRun, flagSkipConfirm,
                   releases, pvcs, secrets, confirmation, prompted, helmRuns>>

\* c.UI.Input("Proceed with installation? (y/n)") and the test of the answer.
IPrompt ==
    /\ ipc = "prompt"
    /\ prompted' = TRUE
    /\ \E ok \in BOOLEAN, a \in Answers :
         IF ~ok THEN Exit1("input") /\ UNCHANGED confirmation
         ELSE /\ confirmation' = a
              /\ IF Confirmed(a) THEN ipc' = "install" /\ UNCHANGED failure
                 ELSE Exit1("aborted")
    /\ UNCHANGED <<rotation, cleanup, install, run, lifecycle, flagDryRun, flagSkipConfirm,
                   releases, pvcs, secrets, helmRuns>>

\* LocateChart, loader.Load and install.Run(chart, vals).
IInstall ==
    /\ ipc = "install"
    /\ \E chartOk, runOk \in BOOLEAN :
         IF ~chartOk THEN Exit1("chart") /\ UNCHANGED helmRuns
         ELSE /\ helmRuns' = helmRuns + 1
              /\ IF runOk THEN ipc' = "exit0" /\ UNCHANGED failure ELSE Exit1("helm")
    /\ UNCHANGED <<rotation, cleanup, install, run, lifecycle, flagDryRun, flagSkipConfirm,
                   releases, pvcs, secrets, confirmation, prompted>>

NextInstall ==
    \/ IValidate
    \/ IReleases
    \/ IPvcs
    \/ ISecrets
    \/ IValues
    \/ IPrompt
    \/ IInstall

InitInstall ==
    /\ RotationIdle
    /\ pods = {} /\ catalog = {} /\ cpc = "idle"
    /\ label = << >> /\ labelOk = "unset"
    /\ rpc = "start" /\ stopped = FALSE /\ timerFired = FALSE /\ reconciles = 0
    /\ LifecycleIdle
    /\ HelmStart
SpecInstall == InitInstall /\ [][NextInstall]_vars

\* ---------------------------------------------------------------- Next
Next ==
    \/ \E c \in Contents : WriteFile(c)
    \/ \E c \in Contents : ReplaceFile(c)
    \/ \E l \in Servers \cup {NoLeader} : LeaderChange(l)
    \/ \E p \in Servers : SEvent(p)
    \/ \E p \in Servers : SHandle(p)
    \/ \E p \in Servers : SWatcherError(p)
    \/ \E p \in Servers : STimer(p)
    \/ \E p \in Servers : STimerBody(p)
    \/ \E p \in Servers : SSignal(p)
    \/ \E p \in Servers : SBreak(p)
    \/ \E p \in Servers : SOldList(p)
    \/ \E p \in Servers : SInstall(p)
    \/ \E p \in Servers : SPoll(p)
    \/ \E p \in Servers : SUse(p)
    \/ \E p \in Servers : SRemove(p)
    \/ \E p \in Servers : SReturn(p)
    \/ \E p \in Servers : RTick(p)
    \/ \E p \in Servers : RInstall(p)
    \/ \E p \in Servers : RPoll(p)
    \/ \E p \in Servers : RUse(p)

Spec == Init /\ [][Next]_vars
SpecFleet == InitFleet /\ [][Next]_vars
SpecStale == InitStale /\ [][Next]_vars

\* The scheduling of an instance: the select takes a ready case at random,
\* so a file event that stays pending and the timer are each taken again and
\* again; a case body and every step of installKey run to their end.
Fairness ==
    \A p \in Servers :
        /\ SF_vars(SEvent(p)) /\ SF_vars(STimer(p))
        /\ WF_vars(SHandle(p)) /\ WF_vars(STimerBody(p)) /\ WF_vars(SBreak(p))
        /\ WF_vars(SOldList(p)) /\ WF_vars(SInstall(p)) /\ WF_vars(SPoll(p))
        /\ WF_vars(SUse(p)) /\ WF_vars(SRemove(p)) /\ WF_vars(SReturn(p))
        /\ WF_vars(RTick(p)) /\ WF_vars(RInstall(p)) /\ WF_vars(RPoll(p))
        /\ WF_vars(RUse(p))
SpecFollower == InitFollower /\ [][Next]_vars /\ Fairness

\* ------------------------------------------------- what a step does
\* The step is instance p's KeyringInstall / KeyringUse / KeyringRemove call.
CallsInstall(p) == pc[p] = "install" /\ pc'[p] # "install"
CallsUse(p) == pc[p] = "use" /\ pc'[p] # "use"
CallsRemove(p) == pc[p] = "remove" /\ todo'[p] # todo[p]
\* The step starts an installKey call of instance p / is the last of one.
StartsAttempt(p) == pc[p] \notin AttemptPcs /\ pc'[p] \in AttemptPcs
EndsAttempt(p) == pc[p] \in AttemptPcs /\ pc'[p] \notin AttemptPcs \cup {"crashed"}
\* The checksum the deployed variant takes of a file content.
SumOf(data) == IF variant = "sidecar" THEN Md5Sum(data) ELSE Crc32c(data)
\* The keys that are primary on some member (KeyringResponse.PrimaryKeys).
PrimaryKeys == {primary[n] : n \in Nodes}

\* ---------------------------------------------------------------- C1
\* C1: KeyringUse(newKey) is called only after a KeyringList response of the
\* same attempt showed newKey's count equal to the number of members.
C1_PromoteOnlyAfterFullListing ==
    [][\A p \in Servers : CallsUse(p) => sawFull[p]]_vars

\* ---------------------------------------------------------------- C2
\* C2: in rotation-sidecar's installKey, KeyringRemove is never called before
\* KeyringUse(newKey) has returned success in the same attempt.
C2_NoRemoveBeforePromote ==
    [][\A p \in Servers : (variant = "sidecar" /\ CallsRemove(p)) => useOk[p]]_vars

\* ---------------------------------------------------------------- C3
\* C3: a key other than newKey is removed only after a KeyringList response
\* of the same attempt showed newKey present on every member.
C3_RemoveOnlyAfterFullListing ==
    [][\A p \in Servers : (variant = "sidecar" /\ CallsRemove(p)) => sawFull[p]]_vars

\* ---------------------------------------------------------------- C4
\* C4: in every reachable state the keyring has exactly one primary key.
C4_ExactlyOnePrimary == Cardinality(PrimaryKeys) = 1

\* ---------------------------------------------------------------- C5
\* The step is any of the three mutating keyring calls of instance p.
CallsMutation(p) == CallsInstall(p) \/ CallsUse(p) \/ CallsRemove(p)

\* C5: when rotation-sidecar handles a file event for which the leader lookup
\* returned an error or an empty address, or an address whose host is not
\* this instance's POD_IP, it goes back to the select without starting
\* installKey and without any change to the keyring, whatever the file holds.
C5_LeaderOnlyMutation ==
    [][\A p \in Servers :
          (/\ variant = "sidecar"
           /\ pc[p] = "gate"
           /\ pc'[p] # "gate"
           /\ (leaderAddr[p] = EmptyAddr \/ leaderAddr[p][1] # PodIP(p)))
          => (pc'[p] = "select" /\ ~CallsMutation(p) /\ UNCHANGED cluster)]_vars

\* An instance that is about to pass the gate's decision with an
\* unauthorised lookup result while the file holds a key it has not seen.
C5_Witness ==
    \E p \in running :
        /\ variant = "sidecar"
        /\ pc[p] = "gate"
        /\ (leaderAddr[p] = EmptyAddr \/ leaderAddr[p][1] # PodIP(p))
        /\ file \in Keys
        /\ Md5Sum(file) # currentChecksum[p]

\* ---------------------------------------------------------------- C6
\* C6 as stated: every mutating keyring call of a rotation-sidecar instance
\* is made while that instance is colocated with the current leader.
C6_OnlyLeaderMutates ==
    [][\A p \in Servers :
          (variant = "sidecar" /\ CallsMutation(p)) => leader = PodIP(p)]_vars

\* C6 as amended: every mutating keyring call of a rotation-sidecar instance
\* belongs to the handling of a file event whose leader lookup returned the
\* address of the instance's own pod.
C6_MutationsPassedGate ==
    [][\A p \in Servers :
          (variant = "sidecar" /\ CallsMutation(p))
          => (leaderAddr[p] # EmptyAddr /\ leaderAddr[p][1] = PodIP(p))]_vars

\* Both instances are inside installKey, about to mutate the keyring, and one
\* of them is no longer beside the leader.
C6_Witness ==
    /\ variant = "sidecar"
    /\ running = Servers
    /\ \A p \in Servers : pc[p] \in {"install", "use", "remove"}
    /\ \E p \in Servers : leader # PodIP(p) /\ leaderAddr[p][1] = PodIP(p)

\* ---------------------------------------------------------------- C7
\* C7: rotation-sidecar replaces currentChecksum only at the end of an
\* attempt in which KeyringUse(newKey) succeeded.
C7_CommitOnlyAfterPromote ==
    [][\A p \in Servers :
          (variant = "sidecar" /\ currentChecksum'[p] # currentChecksum[p])
          => useOk[p]]_vars

\* ---------------------------------------------------------------- C8
\* C8: an attempt in which no KeyringList response showed newKey on every
\* member makes no KeyringUse and no KeyringRemove call, and ends without
\* the checksum of newKey being the last-seen checksum.
C8_TimeoutFails ==
    [][\A p \in Servers :
          ~sawFull[p]
          => (/\ ~CallsUse(p)
              /\ ~CallsRemove(p)
              /\ (EndsAttempt(p) => currentChecksum'[p] # SumOf(newKey[p])))]_vars

C10_EmptyReadIsUnchanged ==
    \A p \in Servers : newKey[p] # "" /\ currentChecksum[p] # SumOf("")

\* --------------------------------------------------------------- C11
\* The step is rotation-sidecar's return from installKey into Run.
Returns(p) == variant = "sidecar" /\ pc[p] = "ret" /\ pc'[p] = "select"

\* C11: in an attempt of the only rotation-sidecar instance in which every
\* keyring RPC succeeds, KeyringInstall(newKey) comes before the checksum is
\* committed, KeyringUse(newKey) is called when every member holds newKey and
\* a listing showed it, KeyringRemove is called after KeyringUse succeeded,
\* and at the return the checksum of newKey is committed and newKey is the
\* only key and the primary key of every member.
C11_CleanRotation ==
    [][\A p \in Servers :
          (variant = "sidecar" /\ clean[p])
          => /\ CallsInstall(p) => currentChecksum[p] # Md5Sum(newKey[p])
             /\ CallsUse(p) => (sawFull[p] /\ \A n \in Nodes : newKey[p] \in holds[n])
             /\ CallsRemove(p) => (useOk[p] /\ currentChecksum[p] # Md5Sum(newKey[p]))
             /\ Returns(p)
                => /\ ~err[p] /\ sawFull[p] /\ useOk[p]
                   /\ currentChecksum[p] # Md5Sum(newKey[p])
                   /\ currentChecksum'[p] = Md5Sum(newKey[p])
                   /\ \A n \in Nodes : holds[n] = {newKey[p]} /\ primary[n] = newKey[p]]_vars

\* The first rotation, from A to B, is about to return with every RPC
\* succeeded.
C11_Witness ==
    \E p \in running :
        /\ variant = "sidecar"
        /\ pc[p] = "ret"
        /\ clean[p]
        /\ newKey[p] = "B"
        /\ rotated[p] = NoKey
        /\ \A n \in Nodes : holds[n] = {"B"}

\* --------------------------------------------------------------- C12
\* C12: when rotation-sidecar's Run has received the shutdown signal, its
\* next step leaves the event loop (Run returns).
C12_SignalEndsLoop ==
    [][\A p \in Servers :
          (variant = "sidecar" /\ pc[p] = "signal" /\ pc'[p] # "signal")
          => pc'[p] = "returned"]_vars

\* --------------------------------------------------------------- C13
\* C13: when the timer's case runs on the instance beside the leader while
\* the file holds a key whose checksum is not the last-seen one, a rotation
\* attempt starts.
C13_TimerDetects ==
    [][\A p \in Servers :
          (/\ variant = "sidecar"
           /\ pc[p] = "timer"
           /\ pc'[p] # "timer"
           /\ leader = PodIP(p)
           /\ file \in Keys
           /\ Md5Sum(file) # currentChecksum[p])
          => pc'[p] \in AttemptPcs]_vars

\* --------------------------------------------------------------- C14
\* C14: while rotation-sidecar is outside installKey, the checksum of a key
\* whose latest attempt ended without a successful KeyringUse is not the
\* last-seen checksum, so that the next detection of that key retries it.
C14_FailedStaysDetectable ==
    \A p \in Servers :
        (variant = "sidecar" /\ pc[p] \notin AttemptPcs /\ pending[p] # NoKey)
        => currentChecksum[p] # Md5Sum(pending[p])

\* --------------------------------------------------------------- C15
\* C15: every KeyringRemove call of rotation-sidecar's removal loop, failed
\* or not, is followed by the call for the next stale key of the listing if
\* there is one and by the return otherwise; it never makes installKey
\* return an error, and the return commits the new checksum.
C15_RemovalFailureNonFatal ==
    [][\A p \in Servers :
          /\ (variant = "sidecar" /\ CallsRemove(p))
             => /\ ~err'[p]
                /\ Cardinality(todo'[p]) = Cardinality(todo[p]) - 1
                /\ pc'[p] = IF todo'[p] = {} THEN "ret" ELSE "remove"
          /\ (Returns(p) /\ todo[p] = {} /\ useOk[p])
             => currentChecksum'[p] = Md5Sum(newKey[p])]_vars

\* The removal of one stale key has failed (a member still holds it), and
\* the loop is about to call KeyringRemove for another stale key.
C15_Witness ==
    \E p \in running :
        /\ variant = "sidecar"
        /\ pc[p] = "remove"
        /\ todo[p] # {}
        /\ \E x \in ListedKeys(keyringList[p]) \ (todo[p] \cup {newKey[p]}) :
               \E n \in Nodes : x \in holds[n]

\* --------------------------------------------------------------- C16
\* C16: with two rotation-sidecar instances, every member's primary key is
\* always a key it holds; and when an instance returns from an attempt in
\* which its keyring RPCs succeeded and the other instance made mutating
\* calls for the same key only, the new key is the only key and the primary
\* key of every member, as after a single rotation.
C16_SplitBrain ==
    [][variant = "sidecar"
       => /\ \A n \in Nodes : primary'[n] \in holds'[n]
          /\ \A p \in Servers :
                (Returns(p) /\ clean[p] /\ ~foreign[p])
                => \A n \in Nodes :
                      holds'[n] = {newKey[p]} /\ primary'[n] = newKey[p]]_vars

\* Both instances are in an attempt for the same key: one is about to return
\* with its RPCs succeeded, the other is between its calls.
C16_Witness ==
    /\ variant = "sidecar"
    /\ \E p, q \in running :
          /\ p # q
          /\ pc[p] = "ret"
          /\ clean[p]
          /\ ~foreign[p]
          /\ newKey[p] \in Keys
          /\ newKey[q] = newKey[p]
          /\ pc[q] \in {"poll", "use", "remove"}

\* --------------------------------------------------------------- C17
\* C17: no outcome of the cluster calls makes a sidecar process panic.
C17_NeverCrashes == \A p \in Servers : pc[p] # "crashed"

\* --------------------------------------------------------------- C18
\* C18: Reconcile does not panic, and when it has returned nil with every
\* call succeeded, no registered service instance is left whose pod-name
\* names no existing pod.
C18_OrphansDeregistered ==
    /\ cpc # "panicked"
    /\ cpc = "done" => \A inst \in catalog : ~Orphan(inst)

\* --------------------------------------------------------------- C19
\* C19: validLabel(s) is true exactly when s follows the RFC 1123 label
\* convention.
C19_ValidLabelIsRfc1123 ==
    labelOk # "unset" => ((labelOk = "true") <=> IsRfc1123Label(label))

\* --------------------------------------------------------------- C20
\* C20: when rotation-sidecar has handled a Remove event, whatever the
\* leader lookup returned, its watcher has the path again.
C20_RemoveReArmsWatch ==
    [][\A p \in Servers :
          (variant = "sidecar" /\ pc[p] = "gate" /\ event[p] = "Remove" /\ pc'[p] # "gate")
          => watching'[p]]_vars

\* --------------------------------------------------------------- C21
\* Instance p is beside the leader and waits in its event loop with no file
\* event pending, while the file holds a key that p has not committed and
\* that is not the primary key of every member.
PassiveBesideLeader(p) ==
    /\ variant = "sidecar"
    /\ p \in running
    /\ pc[p] \in {"select", "timer", "signal"}
    /\ events[p] = {}
    /\ leader = PodIP(p)
    /\ file \in Keys
    /\ Md5Sum(file) # currentChecksum[p]
    /\ \E n \in Nodes : primary[n] # file

\* C21: an instance that is beside the leader while the file holds a key
\* that has not been promoted eventually starts the rotation (or stops being
\* in that situation), with no further write to the file.
C21_RechecksAuthorization ==
    \A p \in Servers :
        PassiveBesideLeader(p) ~> (pc[p] \in AttemptPcs \/ ~PassiveBesideLeader(p))

\* --------------------------------------------------------------- C22
\* C22: rotatoe changes currentCRC only while installKey is running or
\* returning, never on detection.
C22_CommitAfterAttempt ==
    [][\A p \in Servers :
          (variant = "rotatoe" /\ currentChecksum'[p] # currentChecksum[p])
          => pc[p] \in AttemptPcs]_vars

\* --------------------------------------------------------------- C23
\* C23: while rotation-sidecar is at its KeyringUse call and the call has
\* not succeeded, installKey stays at the call (it retries) or returns an
\* error; it makes no other step.
C23_UseRetried ==
    [][\A p \in Servers :
          (variant = "sidecar" /\ pc[p] = "use" /\ ~useOk'[p])
          => (pc'[p] = "use" \/ (pc'[p] = "ret" /\ err'[p]))]_vars

\* --------------------------------------------------------------- C24
\* C24: installKey goes on from its KeyringInstall call for a key only when
\* the call has put the key on every member; after a failed call the next step is
\* another KeyringInstall call.
C24_InstallRetried ==
    [][\A p \in Servers :
          (CallsInstall(p) /\ newKey[p] \in Keys)
          => \A n \in Nodes : newKey[p] \in holds'[n]]_vars

\* --------------------------------------------------------------- C25
\* The latest attempt of p was for key k and installKey returned an error.
FailedWithError(p, k) == pending[p] = k /\ rotated[p] # k

\* C25: an installKey call of rotation-sidecar that returns an error (the
\* initial KeyringList or KeyringInstall failed) has made no poll, no
\* KeyringUse and no KeyringRemove call; its return leaves currentChecksum
\* as it was; afterwards the key's checksum still differs from currentChecksum,
\* and an attempt that starts is for the content of the file.
C25_ErrorIsRetried ==
    [][\A p \in Servers :
          variant = "sidecar"
          => /\ err[p] => /\ pc[p] = "ret"
                          /\ ~useOk[p]
                          /\ keyringList[p] = NoListing
                          /\ todo[p] = {}
             /\ (Returns(p) /\ err[p])
                => /\ currentChecksum'[p] = currentChecksum[p]
                   /\ Changed(Md5Sum(newKey[p]), currentChecksum'[p])
             /\ \A k \in Contents :
                   (pc[p] \notin AttemptPcs /\ FailedWithError(p, k))
                   => Changed(Md5Sum(k), currentChecksum[p])
             /\ StartsAttempt(p) => (pc[p] = "gate" /\ newKey'[p] = file)]_vars

\* After an installKey call for the file's content returned an error, the
\* authorized instance handles a Write event for the same content.
C25_Witness ==
    \E p \in running :
        /\ variant = "sidecar"
        /\ pc[p] = "gate"
        /\ event[p] = "Write"
        /\ Gate(p, leaderAddr[p])
        /\ file \in Keys
        /\ FailedWithError(p, file)

\* --------------------------------------------------------------- C26
\* C26: while an installKey call of an instance is running, the instance
\* receives no file event and the call's key stays the same until the call
\* returns; an attempt starts only when no attempt of the instance runs.
C26_OneAttemptAtATime ==
    [][\A p \in Servers :
          /\ pc[p] \in AttemptPcs
             => /\ events[p] \subseteq events'[p]
                /\ newKey'[p] = newKey[p] \/ pc'[p] \notin AttemptPcs
          /\ StartsAttempt(p) => newKey[p] = NoKey]_vars

\* A file event is pending while an attempt is between its keyring calls.
C26_Witness ==
    \E p \in running :
        /\ pc[p] \in {"poll", "use", "remove"}
        /\ events[p] # {}

\* --------------------------------------------------------------- C27
\* The order of the positions of installKey.
Rank(at) ==
    CASE at = "oldlist" -> 1
      [] at = "install" -> 2
      [] at = "poll"    -> 3
      [] at = "use"     -> 4
      [] at = "remove"  -> 5
      [] at = "ret"     -> 6
      [] OTHER          -> 0

\* C27: an attempt never goes back to an earlier call (so it makes at most
\* one KeyringInstall and one KeyringUse call), it makes fewer than MaxPolls
\* failed polls, and it ends only by installKey returning to Run.
C27_AttemptReturns ==
    [][\A p \in Servers :
          pc[p] \in AttemptPcs
          => /\ pc'[p] \in AttemptPcs => Rank(pc'[p]) >= Rank(pc[p])
             /\ CallsInstall(p) => pc'[p] # "oldlist"
             /\ i'[p] <= MaxPolls
             /\ pc'[p] \notin AttemptPcs => pc'[p] = "select"]_vars

\* --------------------------------------------------------------- C28
\* C28: rotation-sidecar's removal loop is entered with every key of the
\* latest listing other than newKey, every KeyringRemove call is for one of
\* them, and installKey returns when none is left.
C28_RemovesEveryOtherKey ==
    [][\A p \in Servers :
          variant = "sidecar"
          => /\ (pc[p] \in {"poll", "use"} /\ pc'[p] \in {"remove", "ret"})
                => todo'[p] = ListedKeys(keyringList'[p]) \ {newKey[p]}
             /\ CallsRemove(p)
                => /\ newKey[p] \notin todo[p]
                   /\ todo'[p] \subseteq todo[p]
                   /\ todo[p] \subseteq ListedKeys(keyringList[p])
             /\ Returns(p) => todo[p] = {}]_vars

\* The removal loop is about to start with two keys to remove.
C28_Witness ==
    \E p \in running :
        /\ variant = "sidecar"
        /\ pc[p] = "remove"
        /\ Cardinality(todo[p]) = 2
        /\ todo[p] = ListedKeys(keyringList[p]) \ {newKey[p]}

\* --------------------------------------------------------------- C29
\* C29: rotatoe calls KeyringInstall and KeyringUse only on the instance
\* that is beside the current leader.
C29_RotatoeGate ==
    [][\A p \in Servers :
          (variant = "rotatoe" /\ (CallsInstall(p) \/ CallsUse(p)))
          => leader = PodIP(p)]_vars

\* --------------------------------------------------------------- C30
\* C30: rotation-sidecar's event loop is never stuck after an error of the
\* file watcher.
C30_WatcherErrorNoStall == \A p \in Servers : pc[p] # "blocked"

\* --------------------------------------------------------------- C31
\* C31: KeyringUse(newKey) is called only in an attempt whose
\* KeyringInstall(newKey) returned success; after a failed KeyringInstall
\* the attempt makes no KeyringUse call (both variants).
C31_UseOnlyAfterInstall ==
    [][\A p \in Servers : CallsUse(p) => installOk[p]]_vars

\* --------------------------------------------------------------- C32
\* The leader of the lookup is unknown, or its host is not POD_IP.
NotAuthorized(p) ==
    leaderAddr[p] = EmptyAddr \/ SplitHost(leaderAddr[p]) # PodIP(p)

\* C32: when rotation-sidecar handles a file event while it is not
\* authorized, the handling ends without an attempt and leaves
\* currentChecksum as it was, whatever the file holds.
C32_UnauthorizedKeepsChecksum ==
    [][\A p \in Servers :
          (variant = "sidecar" /\ pc[p] = "gate" /\ NotAuthorized(p))
          => /\ currentChecksum'[p] = currentChecksum[p]
             /\ pc'[p] \in {"gate", "select"}
             /\ newKey'[p] = NoKey]_vars

\* The instance has never been beside the leader, the file was changed and
\* the event of the change was handled: the old content is still last seen.
C32_Witness ==
    \E p \in running :
        /\ variant = "sidecar"
        /\ elections = 0 /\ leader # PodIP(p)
        /\ writes > 0 /\ events[p] = {} /\ pc[p] = "select"
        /\ Changed(Md5Sum(file), currentChecksum[p])
        /\ currentChecksum[p] = Md5Sum("A")

\* --------------------------------------------------------------- C33
\* C33: rotatoe never removes a key: no step takes a key out of a member's
\* keyring, and after a KeyringUse of rotatoe that made newKey the primary
\* key of every member, every member still holds its previous primary key,
\* as a non-primary key, next to newKey.
C33_RotatoeKeepsOldKey ==
    [][variant = "rotatoe" =>
          /\ \A n \in Nodes : holds[n] \subseteq holds'[n]
          /\ \A p \in Servers :
                (CallsUse(p) /\ \A n \in Nodes : primary'[n] = newKey[p])
                => \A n \in Nodes :
                      /\ newKey[p] \in holds'[n]
                      /\ primary[n] \in holds'[n]]_vars

\* rotatoe has rotated from A to B: B is primary everywhere, A is still
\* installed everywhere.
C33_Witness ==
    /\ variant = "rotatoe"
    /\ \E p \in running : rotated[p] = "B" /\ pc[p] = "select"
    /\ \A n \in Nodes : primary[n] = "B" /\ holds[n] = {"A", "B"}

\* --------------------------------------------------------------- C34
\* The step is a Reconcile call of Run.
CallsReconcile == reconciles' # reconciles

\* C34: Run calls Reconcile once at startup, before anything else, and then
\* once for every expiry of the timer that its select receives; after a
\* Reconcile that returned an error Run is back in its select; Run returns
\* only by receiving from stopCh, and once it has returned it calls
\* Reconcile no more.
C34_RunLoop ==
    [][/\ (rpc = "start") = (reconciles = 0)
       /\ CallsReconcile =>
            /\ reconciles' = reconciles + 1
            /\ rpc = "start" \/ (rpc = "select" /\ timerFired /\ ~timerFired')
       /\ (CallsReconcile /\ cpc' = "failed") => rpc' = "select"
       /\ (rpc # "returned" /\ rpc' = "returned") => (stopped /\ rpc = "select")
       /\ rpc = "returned" => (rpc' = "returned" /\ ~CallsReconcile)]_vars

\* Run went on after its startup Reconcile, its latest Reconcile, in the
\* timer's case, returned an error, and Run has then returned on stopCh.
C34_Witness ==
    /\ rpc = "returned"
    /\ reconciles >= 2
    /\ cpc = "failed"

\* C34 as stated: once stopCh has fired while Run waits in its select, Run
\* calls Reconcile no more.
C34_NoReconcileAfterStop ==
    [][(stopped /\ rpc = "select") => ~CallsReconcile]_vars

\* --------------------------------------------------------------- C35
\* C35: a Reconcile whose list of the pods fails returns the error and
\* deregisters no service from Consul.
C35_PodListErrorNoDeregister ==
    [][cpc' = "failed" => catalog' = catalog]_vars

\* Reconcile has returned the error of the pod list while a registered
\* service instance names a pod that does not exist.
C35_Witness ==
    /\ cpc = "failed"
    /\ \E inst \in catalog : Orphan(inst)

\* --------------------------------------------------------------- C36
\* C36: once validateFlags has passed, lifecycle-sidecar's Run repeats the
\* registration command; after every command, failed or not, it waits in
\* the select and runs the next one only when syncPeriod has passed; it
\* returns only after SIGINT/SIGTERM, with 0; and once such a signal has
\* arrived while the loop runs, Run eventually returns 0.
C36_LoopUntilSignal ==
    /\ [][
          /\ syncs' # syncs => (syncs' = syncs + 1 /\ lpc = "cmd" /\ lpc' = "select")
          /\ (lpc = "select" /\ lpc' = "cmd") => afterFired
          /\ (lpc' = "returned0" /\ lpc # "returned0")
               => (signalled /\ cancelled /\ lpc = "select")
          /\ (~cancelled /\ cancelled') => signalled
          /\ lpc \in {"cmd", "select"} => lpc' \in {"cmd", "select", "returned0"}
       ]_vars
    /\ []((lpc \in {"returned0", "returned1"} /\ ~signalled)
            => (lpc = "returned1" /\ syncs = 0))
    /\ (signalled /\ lpc \in {"cmd", "select"}) ~> (lpc = "returned0")

\* Run has returned 0 after a signal, having repeated the command after a
\* failed one.
C36_Witness ==
    /\ lpc = "returned0"
    /\ signalled
    /\ syncs >= 3
    /\ lastSync = "failed"

\* --------------------------------------------------------------- C37
\* Every pre-install check passes on this cluster: no release of the consul
\* chart, no PVC whose name contains consul-server, no secret whose name
\* contains consul-bootstrap-acl-token.
ChecksPass ==
    /\ "consul" \notin releases
    /\ \A pvc \in pvcs : ~Contains(pvc, <<"consul", "server">>)
    /\ \A secret \in secrets : ~Contains(secret, <<"consul", "bootstrap", "acl", "token">>)

\* The user answered y or yes: in any case of the letters, with or without
\* the newline that ends the line.
SaysYes(a) ==
    \E w \in {<<121>>, <<121, 101, 115>>}, nl \in {<< >>, <<10>>} :
        /\ Len(a) = Len(w) + Len(nl)
        /\ \A k \in 1..Len(w) : a[k] \in {w[k], w[k] - 32}
        /\ nl # << >> => a[Len(a)] = 10

\* The step is Run's call of the Helm installation.
CallsHelm == helmRuns' # helmRuns

\* C37: Run invokes the Helm install only if every pre-install check
\* passed, dry-run is off, and skip-confirm is set or the user answered y
\* or yes; with dry-run set, Run neither prompts nor installs, and once the
\* checks have passed it returns 0 unless merging the values failed.
C37_InstallOnlyWhenConfirmed ==
    [][/\ CallsHelm =>
            /\ ChecksPass
            /\ ~flagDryRun
            /\ flagSkipConfirm \/ (prompted /\ SaysYes(confirmation))
            /\ helmRuns = 0
       /\ flagDryRun => (~prompted' /\ ~CallsHelm)
       /\ (flagDryRun /\ ipc = "values" /\ ipc' # "values")
            => (ipc' = "exit0" \/ (ipc' = "exit1" /\ failure' = "values"))
       /\ ipc \in {"values", "prompt", "install"} => ChecksPass]_vars

\* On a cluster that passes the checks, with both flags off, the user has
\* typed an upper-case Y and the Helm installation has been run.
C37_Witness ==
    /\ ~flagDryRun /\ ~flagSkipConfirm
    /\ pvcs # {} /\ secrets # {} /\ releases # {}
    /\ prompted /\ confirmation = <<89, 10>>
    /\ helmRuns = 1

\* C37 as stated: with dry-run set and the checks passed, Run returns 0.
C37_DryRunReturnsZero ==
    [][(flagDryRun /\ ipc = "values" /\ ipc' # "values") => ipc' = "exit0"]_vars

====
